---- MODULE Spec2Model ----
(***************************************************************************)
(* Model of the retrieval pipeline of meaCreator's backend:                *)
(*   rag_index.py   split/pack of paragraphs, ingest_folder                *)
(*   ingest.py      the ingestion run (batched embedding, index write)     *)
(*   retriever.py   SimpleIndex (load, search)                             *)
(*   main.py        index reload and build_context_block                   *)
(*                                                                         *)
(* Each part of the program has its own variables and its own              *)
(* specification (SpecPack, ...); a specification leaves the variables of  *)
(* the other parts at their idle values.                                   *)
(***************************************************************************)
EXTENDS Integers, Sequences, FiniteSets, TLC

VARIABLES
    \* ---- rag_index.pack_chunks ----
    parts,           \* the paragraph list: parts[i] is len(parts[i]) in characters
    target_tokens,   \* argument
    overlap_tokens,  \* argument
    pk,              \* the loop's locals: [chunks, cur, cur_len]
    pidx,            \* position of the for loop in parts (next paragraph)
    packed,          \* the returned list
    pack_pc,         \* "idle" | "loop" | "done"
    \* ---- main.py: globals and build_context_block ----
    _index,          \* the global _index: None or a SimpleIndex
    query,           \* build_context_block's argument: [blank, vector]
    TOP_K,           \* configuration
    MAX_CONTEXT_CHARS, \* configuration
    recs,            \* local: what _index.search returned
    ctx_ret,         \* the returned (context_md, sources), with the sections of context_md
    ctx_pc,          \* "idle" | "check" | "search" | "assemble" | "done"
    ctx_reads,       \* history: the value of _index at each read made for this query
    embed_calls,     \* history: calls of the embedder made for this query
    \* ---- rag_index.ingest_folder ----
    docs_dir,        \* the documents walk_docs enumerates, in its order
    fidx,            \* position of the for loop in them
    fchunks,         \* local: chunks
    folder_ret,      \* the returned list
    folder_pc,       \* "idle" | "loop" | "done"
    \* ---- the index file at INDEX_PATH ----
    file_exists,
    file_lines,      \* its complete lines, one record each
    file_torn,       \* whether a part of a further line follows them
    file_mtime,      \* st_mtime
    clock,           \* the timestamp the file system gives a modification
    \* ---- ingest.py: main ----
    batch,           \* args.batch
    ing_chunks,      \* chunks
    bi,              \* position of the batch loop in texts (i, from 1)
    vecs,            \* the batches embedded so far
    embed_log,       \* history: the argument of each call of embedder.embed
    vectors,         \* np.vstack(vecs)
    w_pos,           \* records write_jsonl_index has put on disk
    ing_pc,          \* "idle" | "write_empty" | "embed" | "write" | "done" | "aborted"
    file_before,     \* history: the file when the run started
    \* ---- main.py: the serving process ----
    _INDEX_MTIME,    \* the global; 0 stands for None
    chat_pc,         \* chat_endpoint on the event loop: "idle" | "stat" | "compare" | "load" | "ctx"
    chat_mtime,      \* local mtime of _ensure_index_fresh
    ld,              \* per thread, its call of _load_index: [pc, recs, snap], where
                     \* snap is history: the file as it was when from_jsonl read it
    idx_snap,        \* history: the file as it was when the records of _index were read
    idx_again,       \* history: the last store put back what was read of the same file
    \* ---- retriever.py: a call of SimpleIndex.search_with_scores ----
    srch_self,       \* self, a SimpleIndex
    srch_query,      \* argument query: [blank, vector], vector what the embedder makes of it
    srch_top_k,      \* argument top_k
    srch_ret,        \* the returned records, as positions in self.records
    srch_embeds,     \* history: calls of embedder.embed_query
    srch_pc          \* "idle" | "call" | "done"

packVars == <<parts, target_tokens, overlap_tokens, pk, pidx, packed, pack_pc>>
ctxVars == <<query, TOP_K, MAX_CONTEXT_CHARS, recs, ctx_ret, ctx_pc, ctx_reads, embed_calls>>

folderVars == <<docs_dir, fidx, fchunks, folder_ret, folder_pc>>

fileVars == <<file_exists, file_lines, file_torn, file_mtime>>
ingVars == <<batch, ing_chunks, bi, vecs, embed_log, vectors, w_pos, ing_pc, file_before>>

srvVars == <<_INDEX_MTIME, chat_pc, chat_mtime, ld, idx_snap, idx_again>>

srchVars == <<srch_self, srch_query, srch_top_k, srch_ret, srch_embeds, srch_pc>>

vars == <<packVars, _index, ctxVars, folderVars, fileVars, clock, ingVars, srvVars, srchVars>>

(***************************************************************************)
(* Bounds of the model.                                                    *)
(***************************************************************************)
MaxParas == 4          \* paragraphs per document
LenStep == 90          \* paragraph lengths are multiples of LenStep
MaxLenSteps == 3       \* ... up to MaxLenSteps * LenStep characters
TargetTokensHi == 100  \* the larger of the two target_tokens tried
OverlapTokensHi == 40  \* the middle overlap_tokens tried
MaxIdx == 3            \* records of an index
MaxAngle == 2          \* embedding vectors point at 0, 60, ..., MaxAngle*60 degrees
MaxTopK == 3           \* TOP_K ranges over 0..MaxTopK
MaxDocs == 3           \* documents of a folder
MaxIngestDocs == 2     \* documents of the folder of an ingestion run
MaxBatch == 2          \* args.batch ranges over 1..MaxBatch
MaxClock == 2          \* the file system's clock ticks up to MaxClock

(***************************************************************************)
(* rag_index.py                                                            *)
(***************************************************************************)
CHARS_PER_TOKEN == 4

Max(a, b) == IF a >= b THEN a ELSE b
Min(a, b) == IF a <= b THEN a ELSE b

\* Paragraphs as split_paragraphs returns them: non-empty, stripped, without
\* line breaks.  A paragraph is known by its position in parts and its length.
ParaLens == { k * LenStep : k \in 1..MaxLenSteps }

RECURSIVE SeqsUpTo(_, _)
SeqsUpTo(S, n) ==
    IF n = 0 THEN { <<>> }
    ELSE LET shorter == SeqsUpTo(S, n - 1)
         IN  shorter \cup { Append(s, x) : s \in { t \in shorter : Len(t) = n - 1 }, x \in S }

TargetTokenChoices == { 0, TargetTokensHi }
OverlapTokenChoices == { -1, 0, OverlapTokensHi, TargetTokensHi }

\* len("\n".join(c)) for a list c of paragraph positions of ps
RECURSIVE SumLens(_, _)
SumLens(ps, c) == IF c = <<>> THEN 0 ELSE ps[Head(c)] + SumLens(ps, Tail(c))

JoinedChars(ps, c) == IF c = <<>> THEN 0 ELSE SumLens(ps, c) + (Len(c) - 1)

\* sum(len(x) + 1 for x in cur)
CurLenOf(ps, c) == SumLens(ps, c) + Len(c)

target_chars_of(tt) == Max(200, tt * CHARS_PER_TOKEN)
overlap_chars_of(ot) == Max(0, ot * CHARS_PER_TOKEN)

\* for seg in reversed(cur): carry.append(seg); carry_len += len(seg) + 1;
\*     if carry_len >= overlap_chars: break
\* j is the position in cur of seg; the result is list(reversed(carry)).
RECURSIVE carry_loop(_, _, _, _, _)
carry_loop(ps, cur, j, carry_len, overlap_chars) ==
    LET new_len == carry_len + ps[cur[j]] + 1
    IN  IF new_len >= overlap_chars \/ j = 1
        THEN SubSeq(cur, j, Len(cur))
        ELSE carry_loop(ps, cur, j - 1, new_len, overlap_chars)

\* A carry loop that tests before it appends: nothing is carried when the
\* overlap is already reached (overlap 0 carries nothing).
carry_tail_test_first(ps, cur, overlap_chars) ==
    IF cur = <<>> \/ overlap_chars <= 0 THEN <<>>
    ELSE carry_loop(ps, cur, Len(cur), 0, overlap_chars)

\* A carry loop that breaks after its first paragraph, whatever the overlap.
carry_tail_last_only(ps, cur, overlap_chars) ==
    IF cur = <<>> THEN <<>> ELSE SubSeq(cur, Len(cur), Len(cur))

carry_tail(ps, cur, overlap_chars) ==
    IF cur = <<>> THEN <<>>
    ELSE carry_loop(ps, cur, Len(cur), 0, overlap_chars)

\* One iteration of `for p in parts` (p is the paragraph's position).
pack_step(ps, s, p, target_chars, overlap_chars) ==
    LET p_len == ps[p]
        close == s.cur # <<>> /\ s.cur_len + p_len + 1 > target_chars
        carry == carry_tail(ps, s.cur, overlap_chars)
        chunks1 == IF close THEN Append(s.chunks, s.cur) ELSE s.chunks
        cur1 == IF close THEN carry ELSE s.cur
        len1 == IF close THEN CurLenOf(ps, carry) ELSE s.cur_len
    IN  [chunks |-> chunks1, cur |-> Append(cur1, p), cur_len |-> len1 + p_len + 1]

\* `if cur: chunks.append(...)` and `return [c.strip() for c in chunks if c.strip()]`.
\* A chunk joins stripped non-empty paragraphs, so strip() removes nothing from
\* it and it is kept exactly when it has characters.
\* A return without the flush of the window that is open when the loop ends.
pack_finish_without_flush(ps, s) ==
    SelectSeq(s.chunks, LAMBDA c : JoinedChars(ps, c) > 0)

pack_finish(ps, s) ==
    LET all == IF s.cur # <<>> THEN Append(s.chunks, s.cur) ELSE s.chunks
    IN  SelectSeq(all, LAMBDA c : JoinedChars(ps, c) > 0)

PackStart == [chunks |-> <<>>, cur |-> <<>>, cur_len |-> 0]

RECURSIVE pack_fold(_, _, _, _, _)
pack_fold(ps, s, p, target_chars, overlap_chars) ==
    IF p > Len(ps) THEN s
    ELSE pack_fold(ps, pack_step(ps, s, p, target_chars, overlap_chars), p + 1,
                   target_chars, overlap_chars)

\* pack_chunks as a function: the chunks, each a list of paragraph positions
pack_chunks(ps, tt, ot) ==
    pack_finish(ps, pack_fold(ps, PackStart, 1, target_chars_of(tt), overlap_chars_of(ot)))

\* ---- pack_chunks as a state machine, one loop iteration per step ----
PackIdle ==
    /\ parts = <<>> /\ target_tokens = 0 /\ overlap_tokens = 0
    /\ pk = PackStart /\ pidx = 1 /\ packed = <<>> /\ pack_pc = "idle"

PackIter ==
    /\ pack_pc = "loop" /\ pidx <= Len(parts)
    /\ pk' = pack_step(parts, pk, pidx, target_chars_of(target_tokens),
                       overlap_chars_of(overlap_tokens))
    /\ pidx' = pidx + 1
    /\ UNCHANGED <<parts, target_tokens, overlap_tokens, packed, pack_pc>>
    /\ UNCHANGED <<_index, ctxVars, folderVars, fileVars, clock, ingVars, srvVars, srchVars>>

PackReturn ==
    /\ pack_pc = "loop" /\ pidx > Len(parts)
    /\ packed' = pack_finish(parts, pk)
    /\ pack_pc' = "done"
    /\ UNCHANGED <<parts, target_tokens, overlap_tokens, pk, pidx>>
    /\ UNCHANGED <<_index, ctxVars, folderVars, fileVars, clock, ingVars, srvVars, srchVars>>

(***************************************************************************)
(* retriever.py: SimpleIndex, and main.py: build_context_block             *)
(*                                                                         *)
(* A text is the list of the lengths of the paragraphs it joins with "\n". *)
(* An embedding vector is a direction: k stands for the unit vector at     *)
(* k*60 degrees.  Rows and query are L2-normalised by the code, so the     *)
(* score of a row is the cosine of the angle between the two directions,   *)
(* here times two to stay in integers.                                     *)
(***************************************************************************)
TextLen(t) == JoinedChars(t, [j \in 1..Len(t) |-> j])

Angles == 0..MaxAngle

\* 2 * cos(d * 60 degrees), d in 0..3 (periodic beyond)
Cos2(d) == CASE d % 6 = 0 -> 2 [] d % 6 \in {1, 5} -> 1 [] d % 6 \in {2, 4} -> -1 [] OTHER -> -2

\* (mat @ q)[i] for a row of direction v and a query of direction q
Sim(v, q) == Cos2(IF v >= q THEN v - q ELSE q - v)

\* the value None of the global _index, and SimpleIndex.__init__
None == [loaded |-> FALSE, records |-> <<>>]
SimpleIndex(records) == [loaded |-> TRUE, records |-> records]
size(idx) == Len(idx.records)

Range(s) == { s[i] : i \in 1..Len(s) }

\* the permutations of 1..n
RECURSIVE PermsOf(_)
PermsOf(S) ==
    IF S = {} THEN { <<>> }
    ELSE UNION { { Append(p, x) : p \in PermsOf(S \ { x }) } : x \in S }
Perms(n) == PermsOf(1..n)

\* np.argpartition(a, kth): every permutation of the positions of a that has at
\* position kth (from 0; a negative kth counts from the end) an element in its
\* sorted place, nothing larger before it and nothing smaller after it.  The
\* order within the two sides is not fixed.
argpartition(a, kth) ==
    LET n == Len(a)
        m == IF kth < 0 THEN kth + n + 1 ELSE kth + 1
    IN  { p \in Perms(n) :
            /\ \A i \in 1..(m - 1) : a[p[i]] <= a[p[m]]
            /\ \A i \in (m + 1)..n : a[p[i]] >= a[p[m]] }

\* np.argsort(a): every permutation of the positions of a that lists a in
\* non-decreasing order (the default sort is not stable)
argsort(a) ==
    { p \in Perms(Len(a)) : \A i \in 1..(Len(a) - 1) : a[p[i]] <= a[p[i + 1]] }

\* lines 77-80 with the ranked scores not negated.
search_positions_ascending(idx, qvec, top_k) ==
    LET n == size(idx)
        sims == [i \in 1..n |-> Sim(idx.records[i].vector, qvec)]
        k == Min(top_k, n)
    IN  IF n = 0 THEN { <<>> }
        ELSE UNION { { [i \in 1..k |-> c[o[i]]] : o \in argsort([i \in 1..k |-> sims[c[i]]]) } :
                       c \in { SubSeq(p, 1, k) : p \in argpartition(sims, k - 1) } }

\* Every value search_with_scores may return, as lists of positions in
\* idx.records: lines 73-74, then sims = self.mat @ q, k = min(top_k, n),
\* idx = np.argpartition(-sims, k - 1)[:k], idx = idx[np.argsort(-sims[idx])].
search_positions(idx, qvec, top_k) ==
    LET n == size(idx)
        sims == [i \in 1..n |-> Sim(idx.records[i].vector, qvec)]
        neg == [i \in 1..n |-> 0 - sims[i]]
        k == Min(top_k, n)
    IN  IF n = 0 THEN { <<>> }
        ELSE UNION { { [i \in 1..k |-> c[o[i]]] : o \in argsort([i \in 1..k |-> neg[c[i]]]) } :
                       c \in { SubSeq(p, 1, k) : p \in argpartition(neg, k - 1) } }

\* A search that embeds the query before it tests the matrix.
search_embeds_before_test(idx) == 1

\* the embedder is called only past the empty-matrix test of search_with_scores
search_embeds(idx) == IF size(idx) = 0 THEN 0 ELSE 1

\* the scores returned beside the records: sims[idx]
search_scores(idx, qvec, s) == [i \in 1..Len(s) |-> Sim(idx.records[s[i]].vector, qvec)]

\* ---- a call of search_with_scores as a state machine ----
SearchIdle ==
    /\ srch_self = SimpleIndex(<<>>) /\ srch_query = [blank |-> TRUE, vector |-> 0]
    /\ srch_top_k = 0 /\ srch_ret = <<>> /\ srch_embeds = 0 /\ srch_pc = "idle"

\* lines 73-74: nothing to search
SearchEmpty ==
    /\ srch_pc = "call" /\ size(srch_self) = 0
    /\ srch_ret' = <<>>
    /\ srch_embeds' = srch_embeds + search_embeds(srch_self)
    /\ srch_pc' = "done"
    /\ UNCHANGED <<srch_self, srch_query, srch_top_k>>
    /\ UNCHANGED <<packVars, _index, ctxVars, folderVars, fileVars, clock, ingVars, srvVars>>

\* lines 75-81: the query is embedded, whatever it is, and the rows are ranked
SearchRank ==
    /\ srch_pc = "call" /\ size(srch_self) > 0
    /\ srch_ret' \in search_positions(srch_self, srch_query.vector, srch_top_k)
    /\ srch_embeds' = srch_embeds + search_embeds(srch_self)
    /\ srch_pc' = "done"
    /\ UNCHANGED <<srch_self, srch_query, srch_top_k>>
    /\ UNCHANGED <<packVars, _index, ctxVars, folderVars, fileVars, clock, ingVars, srvVars>>

\* for r in recs: if r.doc_title in seen: continue; seen.add; picked.append; sources.append
RECURSIVE dedup_loop(_, _, _, _)
dedup_loop(rs, i, seen, acc) ==
    IF i > Len(rs) THEN acc
    ELSE IF rs[i].doc_title \in seen THEN dedup_loop(rs, i + 1, seen, acc)
    ELSE dedup_loop(rs, i + 1, seen \cup { rs[i].doc_title },
                    [picked |-> Append(acc.picked, rs[i]),
                     sources |-> Append(acc.sources, rs[i].doc_title)])

\* A loop that never skips: every result is picked.
dedup_keep_all(rs) ==
    [picked |-> rs, sources |-> [i \in 1..Len(rs) |-> rs[i].doc_title]]

dedup(rs) == dedup_loop(rs, 1, {}, [picked |-> <<>>, sources |-> <<>>])

\* A snippet that is never cut to the budget.
truncate_never(text, budget) == TextLen(text)

\* snippet = r.text; if len(snippet) > budget: snippet = snippet[:budget]
truncate(text, budget) == Min(TextLen(text), budget)

\* for r in picked: if budget <= 0: break; ...; lines.append(...); budget -= len(snippet)
\* A line is the record and the number of characters of its text that were kept.
RECURSIVE budget_loop(_, _, _, _)
budget_loop(picked, i, budget, lines) ==
    IF i > Len(picked) \/ budget <= 0 THEN lines
    ELSE LET n == truncate(picked[i].text, budget)
         IN  budget_loop(picked, i + 1, budget - n,
                         Append(lines, [rec |-> picked[i], chars |-> n]))

EmptyRet == [block |-> "", lines |-> <<>>, sources |-> <<>>]

\* lines 247-270 of build_context_block, from the search result on
assemble(rs, max_chars) ==
    LET d == dedup(rs)
    IN  IF d.picked = <<>> THEN EmptyRet
        ELSE [block |-> "md",
              lines |-> budget_loop(d.picked, 1, max_chars, <<>>),
              sources |-> d.sources]

CtxIdle ==
    /\ query = [blank |-> TRUE, vector |-> 0] /\ TOP_K = 0 /\ MAX_CONTEXT_CHARS = 0
    /\ recs = <<>> /\ ctx_ret = EmptyRet /\ ctx_pc = "idle"
    /\ ctx_reads = <<>> /\ embed_calls = 0

\* A line 243 without the test of the query.
CtxCheck_without_query_test ==
    /\ ctx_pc = "check"
    /\ ctx_reads' = Append(ctx_reads, _index)
    /\ IF _index = None \/ size(_index) = 0
       THEN ctx_pc' = "done" /\ ctx_ret' = EmptyRet
       ELSE ctx_pc' = "search" /\ UNCHANGED ctx_ret
    /\ UNCHANGED <<query, TOP_K, MAX_CONTEXT_CHARS, recs, embed_calls>>
    /\ UNCHANGED <<packVars, _index, folderVars, fileVars, clock, ingVars, srvVars, srchVars>>

\* line 243: the tests of _index (None, size) and of the query.  The two reads of
\* the global are one step: _index never goes back to None, so a swap between
\* them changes nothing the None test decides.
CtxCheck ==
    /\ ctx_pc = "check"
    /\ ctx_reads' = Append(ctx_reads, _index)
    /\ IF _index = None \/ size(_index) = 0 \/ query.blank
       THEN ctx_pc' = "done" /\ ctx_ret' = EmptyRet
       ELSE ctx_pc' = "search" /\ UNCHANGED ctx_ret
    /\ UNCHANGED <<query, TOP_K, MAX_CONTEXT_CHARS, recs, embed_calls>>
    /\ UNCHANGED <<packVars, _index, folderVars, fileVars, clock, ingVars, srvVars, srchVars>>

\* line 245: recs = _index.search(query, _embedder, top_k=TOP_K)
CtxSearch ==
    /\ ctx_pc = "search"
    /\ ctx_reads' = Append(ctx_reads, _index)
    /\ \E s \in search_positions(_index, query.vector, TOP_K) :
           recs' = [i \in 1..Len(s) |-> _index.records[s[i]]]
    /\ embed_calls' = embed_calls + search_embeds(_index)
    /\ ctx_pc' = "assemble"
    /\ UNCHANGED <<query, TOP_K, MAX_CONTEXT_CHARS, ctx_ret>>
    /\ UNCHANGED <<packVars, _index, folderVars, fileVars, clock, ingVars, srvVars, srchVars>>

\* lines 247-270
CtxAssemble ==
    /\ ctx_pc = "assemble"
    /\ ctx_ret' = assemble(recs, MAX_CONTEXT_CHARS)
    /\ ctx_pc' = "done"
    /\ UNCHANGED <<query, TOP_K, MAX_CONTEXT_CHARS, recs, ctx_reads, embed_calls>>
    /\ UNCHANGED <<packVars, _index, folderVars, fileVars, clock, ingVars, srvVars, srchVars>>

Titles == { "A", "B" }
TextChoices == { <<LenStep>>, <<LenStep, LenStep>> }
BudgetChoices == { 0, LenStep, 2 * LenStep }

\* The (doc_title, text, vector) of a record, and an order of them.
RecAttrs == Titles \X TextChoices \X Angles
AttrRank(a) ==
    ((IF a[1] = "A" THEN 0 ELSE 1) * 2 + (Len(a[2]) - 1)) * (MaxAngle + 1) + a[3]

RECURSIVE SortedSeqsUpTo(_, _)
SortedSeqsUpTo(S, n) ==
    IF n = 0 THEN { <<>> }
    ELSE LET shorter == SortedSeqsUpTo(S, n - 1)
             longest == { t \in shorter : Len(t) = n - 1 }
         IN  shorter \cup
             { Append(q[1], q[2]) :
                 q \in { r \in longest \X S :
                           r[1] = <<>> \/ AttrRank(r[1][Len(r[1])]) <= AttrRank(r[2]) } }

\* The indexes of up to n records; a record's id is its position.  The rows
\* are listed in the order of AttrRank: search_positions depends on the order
\* of the rows only among equal scores, where it allows every order, so an
\* index with its rows permuted has the same results up to the ids.
IndexesUpTo(n) ==
    { SimpleIndex([i \in 1..Len(a) |->
                     [id |-> i, doc_title |-> a[i][1], text |-> a[i][2], vector |-> a[i][3]]]) :
        a \in SortedSeqsUpTo(RecAttrs, n) }

(***************************************************************************)
(* rag_index.py: ingest_folder                                             *)
(*                                                                         *)
(* A document is [title, ok, parts]: the stem of its file name, whether    *)
(* parse_doc returns (or raises), and the paragraphs split_paragraphs      *)
(* makes of its text.  Its path is its position in the enumeration.  A     *)
(* sha256 digest is the tuple of what was hashed (the hash is injective).  *)
(***************************************************************************)
\* A document id made of the file's name in place of its resolved path.
_doc_stable_id_of_name(path, doc) == <<doc.title, doc.parts>>

_doc_stable_id(path, doc) == <<path, doc.parts>>

\* the text of a chunk: the lengths of the paragraphs it joins
chunk_text(ps, c) == [j \in 1..Len(c) |-> ps[c[j]]]

\* for i, chunk_text in enumerate(packed): chunks.append(IngestedChunk(...))
doc_chunks(path, doc, tt, ot) ==
    LET pkd == pack_chunks(doc.parts, tt, ot)
    IN  [i \in 1..Len(pkd) |->
            [id |-> <<_doc_stable_id(path, doc), i - 1>>,
             doc_id |-> _doc_stable_id(path, doc),
             doc_title |-> doc.title,
             kind |-> "pdf",                 \* every document of the model is a PDF
             path |-> path,
             text |-> chunk_text(doc.parts, pkd[i])]]

\* one iteration of `for path, ext in walk_docs(docs_dir)`: a document whose
\* parse raises is reported and skipped
folder_step(chunks, path, doc, tt, ot) ==
    IF ~doc.ok THEN chunks ELSE chunks \o doc_chunks(path, doc, tt, ot)

RECURSIVE folder_fold(_, _, _, _, _)
folder_fold(docs, chunks, path, tt, ot) ==
    IF path > Len(docs) THEN chunks
    ELSE folder_fold(docs, folder_step(chunks, path, docs[path], tt, ot), path + 1, tt, ot)

\* ingest_folder as a function
ingest_folder(docs, tt, ot) == folder_fold(docs, <<>>, 1, tt, ot)

FolderIdle ==
    /\ docs_dir = <<>> /\ fidx = 1 /\ fchunks = <<>> /\ folder_ret = <<>>
    /\ folder_pc = "idle"

\* An iteration that gives up at the first document it cannot parse.
FolderDoc_stop_on_failure ==
    /\ folder_pc = "loop" /\ fidx <= Len(docs_dir)
    /\ fchunks' = folder_step(fchunks, fidx, docs_dir[fidx], target_tokens, overlap_tokens)
    /\ fidx' = IF docs_dir[fidx].ok THEN fidx + 1 ELSE Len(docs_dir) + 1
    /\ UNCHANGED <<docs_dir, folder_ret, folder_pc>>
    /\ UNCHANGED <<packVars, _index, ctxVars, fileVars, clock, ingVars, srvVars, srchVars>>

\* lines 158-183, one document
FolderDoc ==
    /\ folder_pc = "loop" /\ fidx <= Len(docs_dir)
    /\ fchunks' = folder_step(fchunks, fidx, docs_dir[fidx], target_tokens, overlap_tokens)
    /\ fidx' = fidx + 1
    /\ UNCHANGED <<docs_dir, folder_ret, folder_pc>>
    /\ UNCHANGED <<packVars, _index, ctxVars, fileVars, clock, ingVars, srvVars, srchVars>>

\* line 185
FolderReturn ==
    /\ folder_pc = "loop" /\ fidx > Len(docs_dir)
    /\ folder_ret' = fchunks
    /\ folder_pc' = "done"
    /\ UNCHANGED <<docs_dir, fidx, fchunks>>
    /\ UNCHANGED <<packVars, _index, ctxVars, fileVars, clock, ingVars, srvVars, srchVars>>

DocPartsChoices == { <<>>, <<LenStep>>, <<LenStep, 2 * LenStep>> }
DocChoices ==
    { [title |-> t, ok |-> TRUE, parts |-> ps] : t \in Titles, ps \in DocPartsChoices }
    \cup { [title |-> t, ok |-> FALSE, parts |-> <<>>] : t \in Titles }

(***************************************************************************)
(* The index file, and ingest.py: main and write_jsonl_index               *)
(***************************************************************************)
\* the file as a reader finds it
FileNow == [exists |-> file_exists, lines |-> file_lines, torn |-> file_torn,
            mtime |-> file_mtime]

NoFile == [exists |-> FALSE, lines |-> <<>>, torn |-> FALSE, mtime |-> 0]

FileIdle ==
    /\ file_exists = FALSE /\ file_lines = <<>> /\ file_torn = FALSE
    /\ file_mtime = 0 /\ clock = 1

\* the file system's clock moves on; two modifications between two ticks get
\* the same st_mtime
Tick ==
    /\ clock < MaxClock
    /\ clock' = clock + 1
    /\ UNCHANGED <<packVars, _index, ctxVars, folderVars, fileVars, ingVars, srvVars, srchVars>>

\* Embedder.embed of one text: a deterministic provider, one direction per text
embed_one(text) == TextLen(text) % (MaxAngle + 1)
embed(texts) == [i \in 1..Len(texts) |-> embed_one(texts[i])]

\* A stack with the batch embedded last on top.
RECURSIVE vstack_newest_first(_)
vstack_newest_first(vs) ==
    IF vs = <<>> THEN <<>> ELSE vstack_newest_first(Tail(vs)) \o Head(vs)

RECURSIVE vstack(_)
vstack(vs) == IF vs = <<>> THEN <<>> ELSE Head(vs) \o vstack(Tail(vs))

\* the record write_jsonl_index makes of a chunk and its vector
index_record(ch, vec) ==
    [id |-> ch.id, doc_id |-> ch.doc_id, doc_title |-> ch.doc_title,
     kind |-> ch.kind, path |-> ch.path, text |-> ch.text, vector |-> vec]

\* the lines of the file a complete run over docs writes
index_lines(docs, tt, ot) ==
    LET chs == ingest_folder(docs, tt, ot)
    IN  [i \in 1..Len(chs) |-> index_record(chs[i], embed_one(chs[i].text))]

IngestIdle ==
    /\ batch = 1 /\ ing_chunks = <<>> /\ bi = 1 /\ vecs = <<>> /\ embed_log = <<>> /\ vectors = <<>>
    /\ w_pos = 0 /\ ing_pc = "idle"
    /\ file_before = NoFile

\* lines 59-75: a run starts (the one before it has ended) and chunks the folder
IngScan ==
    /\ ing_pc \in { "idle", "done", "aborted" }
    /\ file_before' = FileNow
    /\ ing_chunks' = ingest_folder(docs_dir, target_tokens, overlap_tokens)
    /\ ing_pc' = IF ing_chunks' = <<>> THEN "write_empty" ELSE "embed"
    /\ bi' = 1 /\ vecs' = <<>> /\ embed_log' = <<>> /\ vectors' = <<>> /\ w_pos' = 0
    /\ UNCHANGED <<batch, fileVars, clock>>
    /\ UNCHANGED <<packVars, _index, ctxVars, folderVars, srvVars, srchVars>>

\* lines 64-68: no chunks, index_path.write_text("")
IngWriteEmpty ==
    /\ ing_pc = "write_empty"
    /\ file_exists' = TRUE /\ file_lines' = <<>> /\ file_torn' = FALSE
    /\ file_mtime' = clock
    /\ ing_pc' = "done"
    /\ UNCHANGED <<batch, ing_chunks, bi, vecs, embed_log, vectors, w_pos, file_before, clock>>
    /\ UNCHANGED <<packVars, _index, ctxVars, folderVars, srvVars, srchVars>>

\* A failing batch after which what was embedded so far is written out.
IngEmbedFail_publish_partial ==
    /\ ing_pc = "embed" /\ bi <= Len(ing_chunks)
    /\ file_exists' = TRUE /\ file_torn' = FALSE
    /\ file_lines' = [i \in 1..(bi - 1) |-> index_record(ing_chunks[i], vstack(vecs)[i])]
    /\ file_mtime' = clock
    /\ ing_pc' = "aborted"
    /\ UNCHANGED <<batch, ing_chunks, bi, vecs, embed_log, vectors, w_pos, file_before, clock>>
    /\ UNCHANGED <<packVars, _index, ctxVars, folderVars, srvVars, srchVars>>

\* lines 78-84, one batch: v = embedder.embed(texts[i : i + args.batch])
IngEmbedBatch ==
    /\ ing_pc = "embed" /\ bi <= Len(ing_chunks)
    /\ LET texts == [i \in 1..Len(ing_chunks) |-> ing_chunks[i].text]
           last == Min(bi + batch - 1, Len(texts))
       IN  /\ vecs' = Append(vecs, embed(SubSeq(texts, bi, last)))
           /\ embed_log' = Append(embed_log, SubSeq(texts, bi, last))
    /\ bi' = bi + batch
    /\ UNCHANGED <<batch, ing_chunks, vectors, w_pos, ing_pc, file_before>>
    /\ UNCHANGED <<fileVars, clock>>
    /\ UNCHANGED <<packVars, _index, ctxVars, folderVars, srvVars, srchVars>>

\* line 80 raises: nothing in main catches it, the run ends there
IngEmbedFail ==
    /\ ing_pc = "embed" /\ bi <= Len(ing_chunks)
    /\ ing_pc' = "aborted"
    /\ UNCHANGED <<batch, ing_chunks, bi, vecs, embed_log, vectors, w_pos, file_before>>
    /\ UNCHANGED <<fileVars, clock>>
    /\ UNCHANGED <<packVars, _index, ctxVars, folderVars, srvVars, srchVars>>

\* lines 86-90 and 23-24: the loop is over, the vectors are stacked and
\* index_path.open("w") creates or empties the file
IngWriteOpen ==
    /\ ing_pc = "embed" /\ bi > Len(ing_chunks)
    /\ vectors' = vstack(vecs)
    /\ Len(vectors') = Len(ing_chunks)      \* the assert of line 87
    /\ file_exists' = TRUE /\ file_lines' = <<>> /\ file_torn' = FALSE
    /\ file_mtime' = clock
    /\ w_pos' = 0 /\ ing_pc' = "write"
    /\ UNCHANGED <<batch, ing_chunks, bi, vecs, embed_log, file_before, clock>>
    /\ UNCHANGED <<packVars, _index, ctxVars, folderVars, srvVars, srchVars>>

\* lines 25-35: the buffered writer flushes in the middle of a line
IngWriteTorn ==
    /\ ing_pc = "write" /\ w_pos < Len(ing_chunks) /\ ~file_torn
    /\ file_torn' = TRUE
    /\ file_mtime' = clock
    /\ UNCHANGED <<file_exists, file_lines>>
    /\ UNCHANGED <<batch, ing_chunks, bi, vecs, embed_log, vectors, w_pos, ing_pc, file_before, clock>>
    /\ UNCHANGED <<packVars, _index, ctxVars, folderVars, srvVars, srchVars>>

\* lines 25-35: the next record is on disk, whole
IngWriteRecord ==
    /\ ing_pc = "write" /\ w_pos < Len(ing_chunks)
    /\ file_lines' = Append(file_lines, index_record(ing_chunks[w_pos + 1], vectors[w_pos + 1]))
    /\ file_torn' = FALSE
    /\ file_mtime' = clock
    /\ w_pos' = w_pos + 1
    /\ UNCHANGED <<file_exists>>
    /\ UNCHANGED <<batch, ing_chunks, bi, vecs, embed_log, vectors, ing_pc, file_before, clock>>
    /\ UNCHANGED <<packVars, _index, ctxVars, folderVars, srvVars, srchVars>>

\* the with block ends, every record is on disk; line 91
IngWriteClose ==
    /\ ing_pc = "write" /\ w_pos = Len(ing_chunks)
    /\ ing_pc' = "done"
    /\ UNCHANGED <<batch, ing_chunks, bi, vecs, embed_log, vectors, w_pos, file_before>>
    /\ UNCHANGED <<fileVars, clock>>
    /\ UNCHANGED <<packVars, _index, ctxVars, folderVars, srvVars, srchVars>>

NextIngest ==
    \/ IngScan \/ IngWriteEmpty \/ IngEmbedBatch \/ IngEmbedFail
    \/ IngWriteOpen \/ IngWriteTorn \/ IngWriteRecord \/ IngWriteClose

\* the folders of the ingestion runs, and the folder whose index is on disk
\* when the first run starts
IngestDocChoices ==
    { [title |-> "A", ok |-> TRUE, parts |-> <<LenStep>>],
      [title |-> "B", ok |-> TRUE, parts |-> <<LenStep, 2 * LenStep>>],
      [title |-> "B", ok |-> FALSE, parts |-> <<>>] }
OldFolder == << [title |-> "B", ok |-> TRUE, parts |-> <<2 * LenStep>>] >>

(***************************************************************************)
(* main.py: the serving process.  chat_endpoint is a coroutine: chat       *)
(* requests run one after the other on the event loop thread ("chat").     *)
(* reload_index is a plain function, which FastAPI runs on a thread of its *)
(* pool ("reload"), beside the event loop.  The ingestion run is another   *)
(* process.  The threads interleave between any two accesses of a global   *)
(* or of the file.                                                         *)
(***************************************************************************)
Threads == { "chat", "reload" }

LdIdle == [pc |-> "idle", recs |-> <<>>, snap |-> NoFile]

ServerIdle ==
    /\ _INDEX_MTIME = 0 /\ chat_pc = "idle" /\ chat_mtime = 0
    /\ ld = [t \in Threads |-> LdIdle] /\ idx_snap = NoFile /\ idx_again = FALSE

\* INDEX_PATH.stat().st_mtime, None (0) when there is no file
stat_mtime == IF file_exists THEN file_mtime ELSE 0

\* lines 47-56: the keys from_jsonl reads of the object of a line
RequiredFields == { "id", "doc_id", "doc_title", "kind", "path", "text", "vector" }
well_formed(line) == RequiredFields \subseteq DOMAIN line

\* A from_jsonl that raises on a line cut short only, and takes an object as
\* it is when a key is missing.
from_jsonl_raises_torn_only == file_exists /\ file_torn

\* SimpleIndex.from_jsonl: the records of the lines, or an empty list when the
\* file does not exist; json.loads raises on a line that is cut short, and
\* obj["..."] raises KeyError on a line without one of the keys
from_jsonl_raises ==
    file_exists /\ (file_torn \/ \E i \in 1..Len(file_lines) : ~well_formed(file_lines[i]))
from_jsonl_records == IF file_exists THEN file_lines ELSE <<>>

\* A load that adds what it read to the records already in memory.
installed_appending(old, records) == SimpleIndex(old.records \o records)

\* line 208: what the assignment makes of _index, given the records read
installed(old, records) == SimpleIndex(records)

\* lines 349-356: a request with a last user message other than "ping" arrives
\* (the ping path returns before it touches the index)
ChatStart ==
    /\ chat_pc = "idle"
    /\ query' \in { [blank |-> TRUE, vector |-> 0], [blank |-> FALSE, vector |-> 0] }
    /\ chat_pc' = "stat"
    /\ UNCHANGED <<TOP_K, MAX_CONTEXT_CHARS, recs, ctx_ret, ctx_pc, ctx_reads, embed_calls>>
    /\ UNCHANGED <<_INDEX_MTIME, chat_mtime, ld, idx_snap, idx_again>>
    /\ UNCHANGED <<packVars, _index, folderVars, fileVars, clock, ingVars, srchVars>>

\* lines 215-218 of _ensure_index_fresh
FreshStat ==
    /\ chat_pc = "stat"
    /\ chat_mtime' = stat_mtime
    /\ chat_pc' = "compare"
    /\ UNCHANGED <<_INDEX_MTIME, ld, idx_snap, idx_again>>
    /\ UNCHANGED <<packVars, _index, ctxVars, folderVars, fileVars, clock, ingVars, srchVars>>

\* lines 219-220, and line 358 when nothing is to load
FreshCompare ==
    /\ chat_pc = "compare"
    /\ IF chat_mtime # _INDEX_MTIME
       THEN /\ ld' = [ld EXCEPT !["chat"].pc = "read"]
            /\ chat_pc' = "load"
            /\ UNCHANGED ctx_pc
       ELSE /\ chat_pc' = "ctx"
            /\ ctx_pc' = "check"
            /\ UNCHANGED ld
    /\ chat_mtime' = 0                      \* the local is dead from here on
    /\ UNCHANGED <<query, TOP_K, MAX_CONTEXT_CHARS, recs, ctx_ret, ctx_reads, embed_calls>>
    /\ UNCHANGED <<_INDEX_MTIME, idx_snap, idx_again>>
    /\ UNCHANGED <<packVars, _index, folderVars, fileVars, clock, ingVars, srchVars>>

\* lines 343-345: a reload request arrives
ReloadStart ==
    /\ ld["reload"].pc = "idle"
    /\ ld' = [ld EXCEPT !["reload"].pc = "read"]
    /\ UNCHANGED <<_INDEX_MTIME, chat_pc, chat_mtime, idx_snap, idx_again>>
    /\ UNCHANGED <<packVars, _index, ctxVars, folderVars, fileVars, clock, ingVars, srchVars>>

\* line 208, right-hand side: from_jsonl reads the file.  When it raises, the
\* assignment does not happen and the exception leaves _load_index.
LoadRead(t) ==
    /\ ld[t].pc = "read"
    /\ IF from_jsonl_raises
       THEN ld' = [ld EXCEPT ![t] = [LdIdle EXCEPT !.pc = "raised"]]
       ELSE ld' = [ld EXCEPT ![t] = [pc |-> "store", recs |-> from_jsonl_records,
                                    snap |-> FileNow]]
    /\ UNCHANGED <<_INDEX_MTIME, chat_pc, chat_mtime, idx_snap, idx_again>>
    /\ UNCHANGED <<packVars, _index, ctxVars, folderVars, fileVars, clock, ingVars, srchVars>>

\* line 208, the assignment to the global
LoadStore(t) ==
    /\ ld[t].pc = "store"
    /\ _index' = installed(_index, ld[t].recs)
    /\ idx_snap' = ld[t].snap
    /\ idx_again' = (ld[t].snap = idx_snap)
    /\ ld' = [ld EXCEPT ![t].pc = "mtime"]
    /\ UNCHANGED <<_INDEX_MTIME, chat_pc, chat_mtime>>
    /\ UNCHANGED <<packVars, ctxVars, folderVars, fileVars, clock, ingVars, srchVars>>

\* line 209
LoadStat(t) ==
    /\ ld[t].pc = "mtime"
    /\ _INDEX_MTIME' = stat_mtime
    /\ ld' = [ld EXCEPT ![t] = [LdIdle EXCEPT !.pc = "done"]]
    /\ UNCHANGED <<chat_pc, chat_mtime, idx_snap, idx_again>>
    /\ UNCHANGED <<packVars, _index, ctxVars, folderVars, fileVars, clock, ingVars, srchVars>>

\* _ensure_index_fresh returns, line 358 calls build_context_block
ChatLoaded ==
    /\ chat_pc = "load" /\ ld["chat"].pc = "done"
    /\ ld' = [ld EXCEPT !["chat"] = LdIdle]
    /\ chat_pc' = "ctx"
    /\ ctx_pc' = "check"
    /\ UNCHANGED <<query, TOP_K, MAX_CONTEXT_CHARS, recs, ctx_ret, ctx_reads, embed_calls>>
    /\ UNCHANGED <<_INDEX_MTIME, chat_mtime, idx_snap, idx_again>>
    /\ UNCHANGED <<packVars, _index, folderVars, fileVars, clock, ingVars, srchVars>>

\* lines 359-376: the reply is made of what build_context_block returned
ChatReply ==
    /\ chat_pc = "ctx" /\ ctx_pc = "done"
    /\ chat_pc' = "idle"
    /\ ctx_pc' = "idle" /\ recs' = <<>> /\ ctx_ret' = EmptyRet
    /\ ctx_reads' = <<>> /\ embed_calls' = 0
    /\ query' = [blank |-> TRUE, vector |-> 0]
    /\ UNCHANGED <<TOP_K, MAX_CONTEXT_CHARS>>
    /\ UNCHANGED <<_INDEX_MTIME, chat_mtime, ld, idx_snap, idx_again>>
    /\ UNCHANGED <<packVars, _index, folderVars, fileVars, clock, ingVars, srchVars>>

\* line 346: reload_index returns
ReloadReturn ==
    /\ ld["reload"].pc = "done"
    /\ ld' = [ld EXCEPT !["reload"] = LdIdle]
    /\ UNCHANGED <<_INDEX_MTIME, chat_pc, chat_mtime, idx_snap, idx_again>>
    /\ UNCHANGED <<packVars, _index, ctxVars, folderVars, fileVars, clock, ingVars, srchVars>>

\* neither reload_index nor chat_endpoint (nor _ensure_index_fresh) catches
\* the exception of _load_index: the request of thread t ends with the error
LoadRaised(t) ==
    /\ ld[t].pc = "raised"
    /\ ld' = [ld EXCEPT ![t] = LdIdle]
    /\ chat_pc' = IF t = "chat" THEN "idle" ELSE chat_pc
    /\ UNCHANGED <<_INDEX_MTIME, chat_mtime, idx_snap, idx_again>>
    /\ UNCHANGED <<packVars, _index, ctxVars, folderVars, fileVars, clock, ingVars, srchVars>>

NextServer ==
    \/ ChatStart \/ FreshStat \/ FreshCompare \/ ChatLoaded
    \/ CtxCheck \/ CtxSearch \/ CtxAssemble \/ ChatReply
    \/ ReloadStart \/ ReloadReturn
    \/ \E t \in Threads : LoadRead(t) \/ LoadStore(t) \/ LoadStat(t) \/ LoadRaised(t)

\* The index file is replaced from outside the program (edited by hand,
\* restored, or removed), with lines that may lack a key.
LoadFileChoices ==
    LET good == index_lines(OldFolder, 0, 0)[1]
        other == [good EXCEPT !.doc_title = "A"]
        bad == [f \in RequiredFields \ { "kind" } |-> good[f]]
    IN  { <<>>, <<other, good>>, <<other, bad>>, <<bad, other>> }

FileReplace ==
    /\ file_exists' \in BOOLEAN
    /\ file_lines' \in IF file_exists' THEN LoadFileChoices ELSE { <<>> }
    /\ file_torn' = FALSE
    /\ file_mtime' = IF file_exists' THEN clock ELSE 0
    /\ UNCHANGED <<packVars, _index, ctxVars, folderVars, clock, ingVars, srvVars, srchVars>>

ServerFolders ==
    { <<>>,
      << [title |-> "A", ok |-> TRUE, parts |-> <<LenStep>>] >>,
      << [title |-> "B", ok |-> TRUE, parts |-> <<LenStep, 2 * LenStep>>] >> }

(***************************************************************************)
(* Specifications: one per part of the program.                            *)
(***************************************************************************)
InitPack ==
    /\ parts \in SeqsUpTo(ParaLens, MaxParas)
    /\ target_tokens \in TargetTokenChoices
    /\ overlap_tokens \in OverlapTokenChoices
    /\ pk = PackStart /\ pidx = 1 /\ packed = <<>> /\ pack_pc = "loop"
    /\ _index = None /\ CtxIdle /\ FolderIdle /\ FileIdle /\ IngestIdle /\ ServerIdle /\ SearchIdle

NextPack == PackIter \/ PackReturn

SpecPack == InitPack /\ [][NextPack]_vars

InitCtx ==
    /\ _index \in { None } \cup IndexesUpTo(MaxIdx)
    /\ query \in { [blank |-> TRUE, vector |-> 0], [blank |-> FALSE, vector |-> 0] }
    /\ TOP_K \in 0..MaxTopK
    /\ MAX_CONTEXT_CHARS \in BudgetChoices
    /\ recs = <<>> /\ ctx_ret = EmptyRet /\ ctx_pc = "check"
    /\ ctx_reads = <<>> /\ embed_calls = 0
    /\ PackIdle /\ FolderIdle /\ FileIdle /\ IngestIdle /\ ServerIdle /\ SearchIdle

\* The indexes of up to n records with every list of vectors; title and text,
\* which search_with_scores does not read, are the same for all records.
SearchIndexes(n) ==
    { SimpleIndex([i \in 1..Len(a) |->
                     [id |-> i, doc_title |-> "A", text |-> <<LenStep>>, vector |-> a[i]]]) :
        a \in SeqsUpTo(Angles, n) }

\* a call of search_with_scores on any index, with any query and top_k
InitSearch ==
    /\ srch_self \in SearchIndexes(MaxIdx)
    /\ srch_query \in { [blank |-> bl, vector |-> v] : bl \in BOOLEAN, v \in Angles }
    /\ srch_top_k \in 0..MaxTopK
    /\ srch_ret = <<>> /\ srch_embeds = 0 /\ srch_pc = "call"
    /\ _index = None /\ PackIdle /\ CtxIdle /\ FolderIdle /\ FileIdle /\ IngestIdle
    /\ ServerIdle

NextSearch == SearchEmpty \/ SearchRank

SpecSearch == InitSearch /\ [][NextSearch]_vars

NextCtx == CtxCheck \/ CtxSearch \/ CtxAssemble

SpecCtx == InitCtx /\ [][NextCtx]_vars

InitFolder ==
    /\ docs_dir \in SeqsUpTo(DocChoices, MaxDocs)
    /\ target_tokens \in TargetTokenChoices
    /\ overlap_tokens \in OverlapTokenChoices
    /\ fidx = 1 /\ fchunks = <<>> /\ folder_ret = <<>> /\ folder_pc = "loop"
    /\ parts = <<>> /\ pk = PackStart /\ pidx = 1 /\ packed = <<>> /\ pack_pc = "idle"
    /\ _index = None /\ CtxIdle /\ FileIdle /\ IngestIdle /\ ServerIdle /\ SearchIdle

NextFolder == FolderDoc \/ FolderReturn

SpecFolder == InitFolder /\ [][NextFolder]_vars

\* the file before the first run: none, an empty one, or the index of OldFolder
InitFile ==
    /\ file_exists \in BOOLEAN
    /\ file_lines \in { <<>>, index_lines(OldFolder, 0, 0) }
    /\ ~file_exists => file_lines = <<>>
    /\ file_torn = FALSE
    /\ file_mtime = IF file_exists THEN 1 ELSE 0
    /\ clock = 1

InitIngest ==
    /\ docs_dir \in SeqsUpTo(IngestDocChoices, MaxIngestDocs)
    /\ target_tokens = 0 /\ overlap_tokens = 0
    /\ batch \in 1..MaxBatch
    /\ InitFile
    /\ ing_chunks = <<>> /\ bi = 1 /\ vecs = <<>> /\ embed_log = <<>> /\ vectors = <<>>
    /\ w_pos = 0 /\ ing_pc = "idle"
    /\ file_before = NoFile
    /\ fidx = 1 /\ fchunks = <<>> /\ folder_ret = <<>> /\ folder_pc = "idle"
    /\ parts = <<>> /\ pk = PackStart /\ pidx = 1 /\ packed = <<>> /\ pack_pc = "idle"
    /\ _index = None /\ CtxIdle /\ ServerIdle /\ SearchIdle

SpecIngest == InitIngest /\ [][NextIngest \/ Tick]_vars

\* The serving process after _on_startup, which loaded the file as it was,
\* and an ingestion process that has not run yet.
InitServer ==
    /\ InitFile
    /\ _index = SimpleIndex(file_lines)
    /\ _INDEX_MTIME = file_mtime
    /\ chat_pc = "idle" /\ chat_mtime = 0
    /\ ld = [t \in Threads |-> LdIdle] /\ idx_snap = FileNow /\ idx_again = FALSE
    /\ query = [blank |-> TRUE, vector |-> 0]
    /\ TOP_K = MaxTopK /\ MAX_CONTEXT_CHARS = LenStep
    /\ recs = <<>> /\ ctx_ret = EmptyRet /\ ctx_pc = "idle"
    /\ ctx_reads = <<>> /\ embed_calls = 0
    /\ docs_dir \in ServerFolders
    /\ target_tokens = 0 /\ overlap_tokens = 0
    /\ batch = MaxBatch
    /\ ing_chunks = <<>> /\ bi = 1 /\ vecs = <<>> /\ embed_log = <<>> /\ vectors = <<>>
    /\ w_pos = 0 /\ ing_pc = "idle"
    /\ file_before = NoFile
    /\ fidx = 1 /\ fchunks = <<>> /\ folder_ret = <<>> /\ folder_pc = "idle"
    /\ parts = <<>> /\ pk = PackStart /\ pidx = 1 /\ packed = <<>> /\ pack_pc = "idle"
    /\ SearchIdle

SpecServer == InitServer /\ [][NextServer \/ NextIngest \/ Tick]_vars

\* The serving process beside a file that changes from outside; no ingestion run.
InitLoad == InitServer /\ docs_dir = <<>>

SpecLoad == InitLoad /\ [][NextServer \/ FileReplace \/ Tick]_vars

(***************************************************************************)
(* Claims about pack_chunks (checked under SpecPack).                      *)
(***************************************************************************)
ChunkHasPara(c, p) == \E j \in 1..Len(c) : c[j] = p

\* b starts with a non-empty suffix of a that holds a's last paragraph
SharesTail(a, b) ==
    \E k \in 1..Min(Len(a), Len(b)) : SubSeq(a, Len(a) - k + 1, Len(a)) = SubSeq(b, 1, k)

\* C1: every returned chunk has at most max(200, target_tokens*4) characters,
\* unless a single paragraph in that chunk is by itself longer than that.
C1_ChunkWithinTarget ==
    pack_pc = "done" =>
        \A i \in 1..Len(packed) :
            \/ JoinedChars(parts, packed[i]) <= target_chars_of(target_tokens)
            \/ \E j \in 1..Len(packed[i]) :
                   parts[packed[i][j]] > target_chars_of(target_tokens)

\* C2: when more than one chunk is returned, every two consecutive chunks share
\* a whole paragraph: chunk i+1 starts with a suffix of chunk i that holds the
\* last paragraph of chunk i, for every overlap_tokens (0 and negative too).
C2_ConsecutiveChunksShare ==
    pack_pc = "done" =>
        \A i \in 1..(Len(packed) - 1) :
            /\ SharesTail(packed[i], packed[i + 1])
            /\ ChunkHasPara(packed[i + 1], packed[i][Len(packed[i])])

C2_Witness ==
    /\ pack_pc = "done" /\ Len(packed) >= 3 /\ overlap_tokens = 0
    /\ Len(packed[2]) >= 2

\* C3: a paragraph longer than the target window appears in the output, and
\* every chunk that holds it holds no other paragraph.
C3_OversizedParagraphAlone ==
    pack_pc = "done" =>
        \A p \in 1..Len(parts) :
            parts[p] > target_chars_of(target_tokens) =>
                /\ \E i \in 1..Len(packed) : ChunkHasPara(packed[i], p)
                /\ \A i \in 1..Len(packed) :
                       ChunkHasPara(packed[i], p) => packed[i] = <<p>>

(***************************************************************************)
(* Claims about build_context_block (checked under SpecCtx).               *)
(***************************************************************************)
RECURSIVE SumChars(_)
SumChars(lines) == IF lines = <<>> THEN 0 ELSE Head(lines).chars + SumChars(Tail(lines))

LineTitles(lines) == [j \in 1..Len(lines) |-> lines[j].rec.doc_title]

\* the position in rs of record r (ids are unique in an index), 0 when absent
PosIn(rs, r) == IF \E i \in 1..Len(rs) : rs[i] = r
                THEN CHOOSE i \in 1..Len(rs) : rs[i] = r ELSE 0

\* C4: the lengths of the (possibly truncated) snippets of the context block
\* sum to at most MAX_CONTEXT_CHARS, each snippet is a prefix of its record's
\* text, and every included candidate was included while budget was left.
C4_BudgetRespected ==
    ctx_pc = "done" =>
        LET L == ctx_ret.lines
        IN  /\ SumChars(L) <= MAX_CONTEXT_CHARS
            /\ \A j \in 1..Len(L) :
                   /\ L[j].chars <= TextLen(L[j].rec.text)
                   /\ SumChars(SubSeq(L, 1, j - 1)) < MAX_CONTEXT_CHARS

\* a truncated snippet exhausts the budget and a further candidate is left out
C4_Witness ==
    /\ ctx_pc = "done" /\ Len(ctx_ret.lines) = 1 /\ Len(ctx_ret.sources) = 2
    /\ ctx_ret.lines[1].chars < TextLen(ctx_ret.lines[1].rec.text)
    /\ SumChars(ctx_ret.lines) = MAX_CONTEXT_CHARS

\* C5: the context block has at most one section per doc_title; a section's
\* record is the first of the search result with its title, which has the
\* highest score of that title's results; the sections follow the order of the
\* search result; and while budget is left every title of the result has one.
C5_OneSectionPerTitle ==
    ctx_pc = "done" =>
        LET L == ctx_ret.lines
            T == LineTitles(L)
        IN  /\ \A i, j \in 1..Len(L) : i # j => T[i] # T[j]
            /\ \A j \in 1..Len(L) :
                   /\ PosIn(recs, L[j].rec) > 0
                   /\ \A i \in 1..(PosIn(recs, L[j].rec) - 1) : recs[i].doc_title # T[j]
                   /\ \A i \in 1..Len(recs) :
                          recs[i].doc_title = T[j] =>
                              Sim(recs[i].vector, query.vector)
                                  <= Sim(L[j].rec.vector, query.vector)
            /\ \A i, j \in 1..Len(L) : i < j => PosIn(recs, L[i].rec) < PosIn(recs, L[j].rec)
            /\ SumChars(L) < MAX_CONTEXT_CHARS =>
                   \A i \in 1..Len(recs) : \E j \in 1..Len(L) : T[j] = recs[i].doc_title

\* the scenario of the spec: results A, B, A of falling score give sections A, B
C5_Witness ==
    /\ ctx_pc = "done" /\ Len(recs) = 3
    /\ [i \in 1..3 |-> recs[i].doc_title] = <<"A", "B", "A">>
    /\ Sim(recs[1].vector, query.vector) > Sim(recs[2].vector, query.vector)
    /\ Sim(recs[2].vector, query.vector) > Sim(recs[3].vector, query.vector)
    /\ LineTitles(ctx_ret.lines) = <<"A", "B">>
    /\ ctx_ret.lines[1].rec = recs[1]

\* C6: the returned source titles are exactly the titles of the sections of
\* the context block, in order.
C6_SourcesAreIncludedTitles ==
    ctx_pc = "done" => ctx_ret.sources = LineTitles(ctx_ret.lines)

(***************************************************************************)
(* Claims about ingest_folder (checked under SpecFolder).                  *)
(***************************************************************************)
\* the chunks of the documents path..Len(docs) that parse, document by document
RECURSIVE ChunksOfParsed(_, _, _, _)
ChunksOfParsed(docs, path, tt, ot) ==
    IF path > Len(docs) THEN <<>>
    ELSE (IF docs[path].ok
          THEN [i \in 1..Len(pack_chunks(docs[path].parts, tt, ot)) |-> <<path, i - 1>>]
          ELSE <<>>)
         \o ChunksOfParsed(docs, path + 1, tt, ot)

\* C10: ingest_folder returns exactly the chunks of the documents that parse,
\* in enumeration order and then in chunk order, and none of a document whose
\* parse fails, wherever the failing documents stand.
C10_FailedDocumentSkipped ==
    folder_pc = "done" =>
        /\ [i \in 1..Len(folder_ret) |-> <<folder_ret[i].path, folder_ret[i].id[2]>>]
               = ChunksOfParsed(docs_dir, 1, target_tokens, overlap_tokens)
        /\ \A i \in 1..Len(folder_ret) :
               LET d == docs_dir[folder_ret[i].path]
               IN  /\ d.ok
                   /\ folder_ret[i].doc_title = d.title
                   /\ folder_ret[i].text
                          = chunk_text(d.parts,
                                pack_chunks(d.parts, target_tokens, overlap_tokens)
                                    [folder_ret[i].id[2] + 1])

\* the first document fails to parse and the two after it give their chunks
C10_Witness ==
    /\ folder_pc = "done" /\ Len(docs_dir) = 3
    /\ ~docs_dir[1].ok /\ docs_dir[2].ok /\ docs_dir[3].ok
    /\ Len(folder_ret) = 3
    /\ folder_ret[1].path = 2 /\ folder_ret[2].path = 2 /\ folder_ret[3].path = 3

(***************************************************************************)
(* Claims about the ingestion run (checked under SpecIngest).              *)
(***************************************************************************)
\* C9: when the embedding of a batch fails, no further batch is embedded and
\* the index file is what it was before the run: nothing is written before
\* every batch has been embedded.
C9_FailedBatchPublishesNothing ==
    /\ [](ing_pc = "aborted" => FileNow = file_before)
    /\ [](ing_pc = "embed" => FileNow = file_before)
    /\ [][ing_pc = "aborted" => (vecs' = vecs /\ FileNow' = FileNow) \/ ing_pc' # "aborted"]_vars

\* the second batch fails after the first was embedded, over an existing index
C9_Witness ==
    /\ ing_pc = "aborted" /\ Len(vecs) = 1 /\ bi <= Len(ing_chunks)
    /\ file_before.lines # <<>> /\ FileNow = file_before

(***************************************************************************)
(* Claims about the serving process (checked under SpecServer).            *)
(***************************************************************************)
\* C7: every read of the index made while one query is answered (the
\* emptiness check of line 243 and the search of line 245) observes the same
\* snapshot, also when a reload runs beside build_context_block.
C7_OneSnapshotPerQuery ==
    \A i, j \in 1..Len(ctx_reads) : ctx_reads[i] = ctx_reads[j]

\* C8: a load that reads the file the index in memory was read from leaves
\* the contents of the index as they were, and so does _ensure_index_fresh
\* when the modification time is the recorded one; a load that read the file
\* as it now stands after a rewrite makes size() the number of its records.
C8_ReloadReflectsFile ==
    [][/\ \A t \in Threads :
              (ld[t].pc = "store" /\ ld'[t].pc = "mtime") =>
                  /\ ld[t].snap = idx_snap => _index'.records = _index.records
                  /\ ld[t].snap = FileNow => size(_index') = Len(from_jsonl_records)
       /\ (chat_pc = "compare" /\ chat_mtime = _INDEX_MTIME /\ chat_pc' = "ctx")
              => _index' = _index
      ]_vars

\* a run has rewritten a file of one record with two, a load after it has
\* brought the two into memory, and a second load of the unchanged file has
\* just stored them again
C8_Witness ==
    /\ ing_pc = "done" /\ Len(file_before.lines) = 1 /\ Len(file_lines) = 2
    /\ \E t \in Threads : ld[t].pc = "mtime" /\ ld[t].snap = FileNow
    /\ idx_again /\ idx_snap = FileNow
    /\ size(_index) = 2 /\ _index.records = file_lines

(***************************************************************************)
(* Claims about SimpleIndex.search (checked under SpecSearch).             *)
(***************************************************************************)
\* C11: a search on an index of zero records returns nothing and does not
\* call the embedding provider, whatever the query and top_k.
C11_EmptyIndexNoEmbedding ==
    (srch_pc = "done" /\ size(srch_self) = 0) => (srch_ret = <<>> /\ srch_embeds = 0)

\* a search for a non-blank query with top_k > 0 on an empty index returned
C11_Witness ==
    /\ srch_pc = "done" /\ size(srch_self) = 0
    /\ ~srch_query.blank /\ srch_top_k > 0 /\ srch_ret = <<>>

\* C12: a search for a blank query returns nothing, also on an index that
\* has records.
C12_BlankQueryEmptyResult ==
    (srch_pc = "done" /\ srch_query.blank) => srch_ret = <<>>

\* C13: on an index with records and top_k >= 1 a search returns exactly
\* min(top_k, size()) distinct records, by non-increasing score, and no
\* record left out scores strictly higher than a returned one.
C13_TopKByDescendingScore ==
    (srch_pc = "done" /\ size(srch_self) > 0 /\ srch_top_k >= 1) =>
        LET n == size(srch_self)
            score(i) == Sim(srch_self.records[i].vector, srch_query.vector)
            scores == search_scores(srch_self, srch_query.vector, srch_ret)
        IN  /\ Len(srch_ret) = Min(srch_top_k, n)
            /\ Range(srch_ret) \subseteq 1..n
            /\ \A i, j \in 1..Len(srch_ret) : i # j => srch_ret[i] # srch_ret[j]
            /\ \A i \in 1..(Len(scores) - 1) : scores[i] >= scores[i + 1]
            /\ \A i \in (1..n) \ Range(srch_ret) :
                   \A j \in 1..Len(srch_ret) : score(i) <= scores[j]

\* two of three records of three different scores were returned, best first
C13_Witness ==
    /\ srch_pc = "done" /\ size(srch_self) = 3 /\ srch_top_k = 2 /\ Len(srch_ret) = 2
    /\ LET scores == search_scores(srch_self, srch_query.vector, srch_ret)
       IN  /\ scores[1] > scores[2]
           /\ \E i \in 1..3 : Sim(srch_self.records[i].vector, srch_query.vector) < scores[2]
    /\ srch_ret[1] > srch_ret[2]

(***************************************************************************)
(* Claims about loading the index (checked under SpecLoad).                *)
(***************************************************************************)
FileMalformed ==
    file_exists /\ \E i \in 1..Len(file_lines) : ~well_formed(file_lines[i])

\* C14: a load of a missing or zero-byte file installs a valid index of zero
\* records; a load of a file with a record that lacks a required field fails
\* as a whole: no index is built of its well-formed records, it raises, and
\* _index and _INDEX_MTIME stay what they were.
C14_LoadFailsClosed ==
    /\ [](\A i \in 1..size(_index) : well_formed(_index.records[i]))
    /\ [][\A t \in Threads :
            /\ (ld[t].pc = "read" /\ ld'[t].pc # "read") =>
                   IF FileMalformed
                   THEN ld'[t].pc = "raised" /\ _index' = _index
                        /\ _INDEX_MTIME' = _INDEX_MTIME
                   ELSE ld'[t].pc = "store"
                        /\ ld'[t].recs = IF file_exists THEN file_lines ELSE <<>>
            /\ (ld[t].pc = "raised" /\ ld'[t].pc # "raised") =>
                   _index' = _index /\ _INDEX_MTIME' = _INDEX_MTIME
            /\ (ld[t].pc = "store" /\ ld'[t].pc = "mtime" /\ ld[t].snap.lines = <<>>) =>
                   _index' = SimpleIndex(<<>>)
       ]_vars

\* the freshness check of a chat request found a newer file whose second
\* record lacks a field; the load has raised, the index of one record loaded
\* at startup and its mtime are in place
C14_Witness ==
    /\ ld["chat"].pc = "raised" /\ ld["reload"].pc = "idle"
    /\ Len(file_lines) = 2 /\ well_formed(file_lines[1]) /\ ~well_formed(file_lines[2])
    /\ size(_index) = 1 /\ _index.records[1] # file_lines[1]
    /\ _INDEX_MTIME = 1 /\ file_mtime = 2

C16_EmptyContextWithoutEmbedding ==
    (ctx_pc = "done" /\ (_index = None \/ size(_index) = 0 \/ query.blank)) =>
        /\ ctx_ret.block = "" /\ ctx_ret.sources = <<>> /\ ctx_ret.lines = <<>>
        /\ embed_calls = 0

\* a blank query on an index of records, with TOP_K and budget above zero
C16_Witness ==
    /\ ctx_pc = "done" /\ query.blank /\ _index # None /\ size(_index) = 2
    /\ TOP_K > 0 /\ MAX_CONTEXT_CHARS > 0
    /\ ctx_ret = EmptyRet /\ embed_calls = 0

(***************************************************************************)
(* A further claim about the serving process (checked under SpecServer).   *)
(***************************************************************************)
\* C17: the recorded modification time belongs to the version of the file
\* whose records are in memory; so when no load is under way, the ingestion
\* run is over with a modification time other than the one of the file it
\* replaced, and a freshness check would find the recorded time, the index
\* in memory holds the records of the file.
C17_MtimeOfLoadedVersion ==
    (\A t \in Threads : ld[t].pc = "idle") =>
        /\ _INDEX_MTIME = (IF idx_snap.exists THEN idx_snap.mtime ELSE 0)
        /\ (/\ ing_pc \in { "done", "aborted" }
            /\ stat_mtime # (IF file_before.exists THEN file_before.mtime ELSE 0)
            /\ _INDEX_MTIME = stat_mtime)
               => _index.records = from_jsonl_records

(***************************************************************************)
(* Further claims about pack_chunks (checked under SpecPack).              *)
(***************************************************************************)
\* a step of the loop that closes the window pk.cur
ClosesWindow == pack_pc = "loop" /\ Len(pk'.chunks) = Len(pk.chunks) + 1

IsSuffix(a, w) == Len(a) <= Len(w) /\ a = SubSeq(w, Len(w) - Len(a) + 1, Len(w))

\* C18 as stated: when a window is closed, the paragraphs carried into the
\* next window are a suffix of the closed window, in order, whose length
\* (each paragraph counted with its separator, as the code counts) is at
\* least overlap_tokens * 4.
C18_CarryReachesOverlap ==
    [][ClosesWindow =>
          LET carry == SubSeq(pk'.cur, 1, Len(pk'.cur) - 1)
          IN  /\ IsSuffix(carry, pk.cur)
              /\ CurLenOf(parts, carry) >= overlap_tokens * CHARS_PER_TOKEN
      ]_vars

\* C18 as amended: the carried paragraphs are a suffix of the closed window,
\* in order, whose length reaches overlap_tokens * 4, or else they are the
\* whole closed window.
C18_CarryReachesOverlapOrWindow ==
    [][ClosesWindow =>
          LET carry == SubSeq(pk'.cur, 1, Len(pk'.cur) - 1)
          IN  /\ IsSuffix(carry, pk.cur)
              /\ \/ CurLenOf(parts, carry) >= overlap_tokens * CHARS_PER_TOKEN
                 \/ carry = pk.cur
      ]_vars

\* a window of three paragraphs was closed and its last two, which reach the
\* overlap of 160 characters, were carried
C18_Witness ==
    /\ pack_pc = "loop" /\ pk.chunks = << <<1, 2, 3>> >> /\ pk.cur = <<2, 3, 4>>
    /\ overlap_tokens = OverlapTokensHi
    /\ CurLenOf(parts, <<3>>) < overlap_tokens * CHARS_PER_TOKEN

\* C19: nothing is lost or reordered: every paragraph is in at least one
\* chunk, every chunk is a run of consecutive paragraphs in input order, the
\* chunks start at non-decreasing positions, no paragraphs give no chunks,
\* and there are never more chunks than paragraphs.
C19_NothingLostOrReordered ==
    pack_pc = "done" =>
        /\ \A p \in 1..Len(parts) : \E i \in 1..Len(packed) : ChunkHasPara(packed[i], p)
        /\ \A i \in 1..Len(packed) :
               /\ packed[i] # <<>>
               /\ Range(packed[i]) \subseteq 1..Len(parts)
               /\ \A j \in 1..(Len(packed[i]) - 1) : packed[i][j + 1] = packed[i][j] + 1
        /\ \A i \in 1..(Len(packed) - 1) : packed[i][1] <= packed[i + 1][1]
        /\ (parts = <<>> => packed = <<>>)
        /\ Len(packed) <= Len(parts)

\* four paragraphs gave three chunks, the second paragraph in two of them
C19_Witness ==
    /\ pack_pc = "done" /\ Len(parts) = 4 /\ Len(packed) = 3
    /\ ChunkHasPara(packed[1], 2) /\ ChunkHasPara(packed[2], 2)
    /\ ChunkHasPara(packed[3], 4)

(***************************************************************************)
(* A further claim about the ingestion run (checked under SpecIngest).     *)
(***************************************************************************)
RECURSIVE Concat(_)
Concat(ss) == IF ss = <<>> THEN <<>> ELSE Head(ss) \o Concat(Tail(ss))

\* C20: for every batch size, a run that ends well has embedded every chunk
\* text once, in order, in consecutive batches of the batch size (the last
\* one may be shorter), and the file has one record per chunk, in chunk
\* order, with the embedding of the chunk's own text: the file a run with
\* all texts in one batch writes.
C20_BatchingPreservesIndex ==
    (ing_pc = "done" /\ ing_chunks # <<>>) =>
        LET texts == [i \in 1..Len(ing_chunks) |-> ing_chunks[i].text]
        IN  /\ Concat(embed_log) = texts
            /\ \A b \in 1..Len(embed_log) :
                   /\ Len(embed_log[b]) >= 1 /\ Len(embed_log[b]) <= batch
                   /\ b < Len(embed_log) => Len(embed_log[b]) = batch
            /\ Len(file_lines) = Len(ing_chunks) /\ ~file_torn /\ file_exists
            /\ \A i \in 1..Len(ing_chunks) :
                   /\ file_lines[i].id = ing_chunks[i].id
                   /\ file_lines[i].text = ing_chunks[i].text
                   /\ file_lines[i].vector = embed(<<ing_chunks[i].text>>)[1]
            /\ file_lines = index_lines(docs_dir, target_tokens, overlap_tokens)
            /\ file_lines = [i \in 1..Len(texts) |->
                                index_record(ing_chunks[i], embed(texts)[i])]

\* three chunks whose vectors differ were embedded in a batch of two and a
\* batch of one, and the run has written its three records
C20_Witness ==
    /\ ing_pc = "done" /\ batch = 2 /\ Len(ing_chunks) = 3
    /\ Len(embed_log) = 2 /\ Len(embed_log[1]) = 2 /\ Len(embed_log[2]) = 1
    /\ Len(file_lines) = 3 /\ file_lines[1].vector # file_lines[3].vector

====
